---- MODULE Spec2Model ----
(***************************************************************************)
(* Model of golang-sql/sqlexp: the capability lookups of package sqlexp    *)
(* (NamerFromDriver, FromDriver, SavepointFromDriver) and the nested       *)
(* transaction wrapper of package nest (DB, Conn, Tx).                     *)
(*                                                                         *)
(* Go strings are sequences of one-character strings wherever the code     *)
(* builds or inspects them (savepoint names, SQL text); opaque values      *)
(* (contexts, errors, user queries) are TLA+ strings.  A Go run-time panic *)
(* (nil interface method call, nil pointer dereference, reflect on a zero  *)
(* Value) is recorded as panic = TRUE in the result of the operation.      *)
(***************************************************************************)
EXTENDS Integers, Sequences, FiniteSets

VARIABLES
    driver,   \* the driver.Driver that db.db.Driver() reports
    txs,      \* heap of *nest.Tx objects, in order of allocation
    ntx,      \* native *sql.Tx resources: the transaction-control calls made on each
    parent,   \* history: parent[t] is the Tx that t was begun from, 0 for a top-level Tx
    closed,   \* history: closed[t] is TRUE once Commit or Rollback was called on t
    last      \* the most recent operation: receiver, inputs, calls made, outcome

vars == <<driver, txs, ntx, parent, closed, last>>

(***************************************************************************)
(* Bounds                                                                  *)
(***************************************************************************)
MaxTx == 3       \* Tx objects allocated in one behaviour
MaxNative == 1   \* native transactions opened in one behaviour
MaxLog == 2      \* transaction-control calls recorded in one behaviour
MaxLen == 3      \* length of the strings given to the quoter

(***************************************************************************)
(* Values                                                                  *)
(***************************************************************************)
Nil == "nil"
NoErr == "nil"
errNoTx == "sqlexp/nest: not in a transaction"
errNoNested == "sqlexp/nest: nested transactions not supported"
DriverErr == "driver: error"
Errs == {NoErr, DriverErr}

Ctxs == {"ctxA", "ctxB"}
Queries == {<<"q">>}

\* Arguments of a statement: a plain value, or a []interface{} passed as one
\* value.
Arg(v) == [val |-> v]
Slice(a) == [slice |-> a]
ArgLists == {<<>>, <<Arg("a")>>, <<Arg("a"), Arg("b")>>}

\* The strings and the interface{} values given to the quoter.
Chars == {"a", "'", "]"}
ItsExample == <<"I", "t", "'", "s">>
Strings == UNION {[1..n -> Chars] : n \in 0..MaxLen} \cup {ItsExample}
NilValue == [kind |-> "nil", s |-> <<>>]
Values ==
    {[kind |-> "string", s |-> s] : s \in Strings} \cup
    {[kind |-> k, s |-> <<>>] : k \in {"nil", "int", "[]byte"}}

\* The savepointers a driver can supply: one whose dialect has a release
\* statement and one whose Release returns empty text.
SpFull == "spFull"
SpNoRelease == "spNoRelease"
Savepointers == {SpFull, SpNoRelease}

TypeNames == {"*mssql.MssqlDriver", "*mysql.MySQLDriver", "*sqlite3.SQLiteDriver"}

\* A driver.Driver interface value: nil, or a value of a concrete type that
\* may implement DriverNamer, DriverQuoter and DriverSavepointer (sp is the
\* Savepointer it supplies, Nil when it does not implement the interface).
NilHandle == [isNil |-> TRUE, type |-> "", namer |-> FALSE, quoter |-> FALSE, sp |-> Nil]
Handles ==
    {NilHandle} \cup
    [isNil : {FALSE}, type : TypeNames, namer : BOOLEAN, quoter : BOOLEAN,
     sp : Savepointers \cup {Nil}]

\* The drivers a sql.DB is opened with.
Drivers ==
    {h \in Handles : ~h.isNil /\ ~h.namer /\ ~h.quoter
                      /\ (h.type = "*sqlite3.SQLiteDriver" \/ h.sp = Nil)}

(***************************************************************************)
(* Strings                                                                 *)
(***************************************************************************)
Digit(d) == <<"0", "1", "2", "3", "4", "5", "6", "7", "8", "9">>[d + 1]

RECURSIVE Itoa(_)
Itoa(n) == IF n < 10 THEN <<Digit(n)>> ELSE Itoa(n \div 10) \o <<Digit(n % 10)>>

\* fmt.Sprintf("savept%dx", index)
SavepointName(index) == <<"s", "a", "v", "e", "p", "t">> \o Itoa(index) \o <<"x">>

\* sub occurs in s as a contiguous substring
Contains(s, sub) ==
    \E i \in 0..(Len(s) - Len(sub)) :
        \A j \in 1..Len(sub) : s[i + j] = sub[j]

(***************************************************************************)
(* Savepointer: SQL text of the three savepoint statements                  *)
(***************************************************************************)
Create(sp, name) == <<"SAVEPOINT ">> \o name
Release(sp, name) == IF sp = SpNoRelease THEN <<>> ELSE <<"RELEASE SAVEPOINT ">> \o name
RollbackTo(sp, name) == <<"ROLLBACK TO SAVEPOINT ">> \o name

(***************************************************************************)
(* Capability lookups                                                      *)
(***************************************************************************)
\* A lookup returns [ret, panic].
Found(v) == [ret |-> v, panic |-> FALSE]
Panic == [ret |-> Nil, panic |-> TRUE]

\* dn, _ := d.(DriverNamer); return dn
NamerFromDriver(d) == IF ~d.isNil /\ d.namer THEN Found("namer") ELSE Found(Nil)

\* d.(DriverQuoter), then reflect.ValueOf(d).Type().String(): Type() on the
\* zero Value that reflect.ValueOf(nil) returns panics.
FromDriver(d) ==
    IF ~d.isNil /\ d.quoter THEN Found("quoter")
    ELSE IF d.isNil THEN Panic
    ELSE IF d.type = "*mssql.MssqlDriver" THEN Found("sqlServerQuoter")
    ELSE Found(Nil)

\* sqlexp.SavepointFromDriver: the driver's own Savepointer, else the table
\* of known drivers, else absent; absence is a sentinel, not an error.
KnownSavepointer(type) == IF type = "*mssql.MssqlDriver" THEN SpNoRelease ELSE Nil
SavepointFromDriver(d) ==
    IF d.isNil THEN Found(Nil)
    ELSE IF d.sp # Nil THEN Found(d.sp)
    ELSE Found(KnownSavepointer(d.type))

\* sp, _ := sqlexp.SavepointFromDriver(d); return sp
savepointFromDriver(d) == SavepointFromDriver(d).ret

(***************************************************************************)
(* Results and calls                                                       *)
(***************************************************************************)
\* One call on an underlying database/sql resource.
Call(on, fn, ctx, text, args, err) ==
    [on |-> on, fn |-> fn, ctx |-> ctx, text |-> text, args |-> args, err |-> err]

\* The resources of database/sql that calls are made on.
DBRes == <<"db", 0>>
ConnRes == <<"conn", 0>>
TxRes(n) == <<"tx", n>>

NoInput ==
    [ctx |-> Nil, query |-> <<>>, args |-> <<>>, handle |-> NilHandle, value |-> NilValue]

\* The record of one operation.
Result(op, recv, in, calls, retTx, retCap, err, panic) ==
    [op |-> op, recv |-> recv, in |-> in, calls |-> calls,
     retTx |-> retTx, retCap |-> retCap, err |-> err, panic |-> panic]

Init ==
    /\ driver \in Drivers
    /\ txs = <<>>
    /\ ntx = <<>>
    /\ parent = <<>>
    /\ closed = <<>>
    /\ last = Result("init", 0, NoInput, <<>>, 0, Nil, NoErr, FALSE)

(***************************************************************************)
(* Package nest: DB                                                        *)
(***************************************************************************)
\* &Tx{ctx: ctx, tx: tx, db: db, savepointer: savepointFromDriver(db.db.Driver())}
TopTx(ctx, n) ==
    [ctx |-> ctx, db |-> "db", tx |-> n, index |-> 0,
     savepointer |-> savepointFromDriver(driver), savepoint |-> <<>>]

\* The outcome of BeginTx on a DB or Conn, given the error e of the native begin.
TopBegin(op, on, ctx, e) ==
    LET in == [NoInput EXCEPT !.ctx = ctx]
        call == Call(on, "BeginTx", ctx, <<>>, <<>>, e)
    IN  IF e # NoErr
        THEN /\ last' = Result(op, 0, in, <<call>>, 0, Nil, e, FALSE)
             /\ UNCHANGED <<txs, ntx, parent, closed>>
        ELSE /\ Len(txs) < MaxTx
             /\ Len(ntx) < MaxNative
             /\ ntx' = Append(ntx, <<>>)
             /\ txs' = Append(txs, TopTx(ctx, Len(ntx) + 1))
             /\ parent' = Append(parent, 0)
             /\ closed' = Append(closed, FALSE)
             /\ last' = Result(op, 0, in, <<call>>, Len(txs) + 1, Nil, NoErr, FALSE)

DBBeginTx(ctx, e) ==
    /\ TopBegin("DB.BeginTx", DBRes, ctx, e)
    /\ UNCHANGED driver

\* A Commit or Rollback that reaches the underlying handle and reports success.
NotInTxMut(op) ==
    Result(op, 0, NoInput, <<Call(DBRes, op, Nil, <<>>, <<>>, NoErr)>>, 0, Nil, NoErr, FALSE)
\* DB.Commit, DB.Rollback, Conn.Commit, Conn.Rollback: return errNoTx
NotInTx(op) == Result(op, 0, NoInput, <<>>, 0, Nil, errNoTx, FALSE)

DBCommit ==
    /\ last' = NotInTx("DB.Commit")
    /\ UNCHANGED <<driver, txs, ntx, parent, closed>>

DBRollback ==
    /\ last' = NotInTx("DB.Rollback")
    /\ UNCHANGED <<driver, txs, ntx, parent, closed>>

(***************************************************************************)
(* Package nest: Conn.  The Conn belongs to the same DB (c.db) and wraps   *)
(* one pooled connection (c.conn).                                         *)
(***************************************************************************)
ConnBeginTx(ctx, e) ==
    /\ TopBegin("Conn.BeginTx", ConnRes, ctx, e)
    /\ UNCHANGED driver

ConnCommit ==
    /\ last' = NotInTx("Conn.Commit")
    /\ UNCHANGED <<driver, txs, ntx, parent, closed>>

ConnRollback ==
    /\ last' = NotInTx("Conn.Rollback")
    /\ UNCHANGED <<driver, txs, ntx, parent, closed>>

(***************************************************************************)
(* Package nest: Tx                                                        *)
(***************************************************************************)
\* A guard that tests the savepoint name instead of the savepointer.
NoSavepointerMut(tx) == tx.savepoint # <<>>
\* if tx.savepointer == nil
NoSavepointer(tx) == tx.savepointer = Nil

\* A child that carries the parent's savepointer and the savepoint name of
\* the next depth.
ChildTxMut(tx, ctx, index, savepoint) ==
    [ctx |-> ctx, db |-> tx.db, tx |-> tx.tx, index |-> index,
     savepointer |-> tx.savepointer, savepoint |-> SavepointName(index + 1)]
\* &Tx{ctx: ctx, tx: tx.tx, savepoint: savepoint, index: index}: the fields
\* db and savepointer are not set and hold their zero value, nil.
ChildTx(tx, ctx, index, savepoint) ==
    [ctx |-> ctx, db |-> Nil, tx |-> tx.tx, index |-> index,
     savepointer |-> Nil, savepoint |-> savepoint]

\* A Tx.BeginTx that advances the parent's index before the CREATE statement
\* and keeps it advanced when the statement fails.
BeginTxHeapMut(heap, t, ctx, e) ==
    IF e # NoErr
    THEN [heap EXCEPT ![t].index = @ + 1]
    ELSE Append(heap, ChildTx(heap[t], ctx, heap[t].index + 1,
                              SavepointName(heap[t].index + 1)))
\* A Tx.BeginTx that moves the receiver to the new depth before copying it.
BeginTxHeapInPlace(heap, t, ctx, e) ==
    IF e # NoErr
    THEN heap
    ELSE Append([heap EXCEPT ![t].index = @ + 1,
                             ![t].savepoint = SavepointName(heap[t].index + 1)],
                ChildTx(heap[t], ctx, heap[t].index + 1,
                        SavepointName(heap[t].index + 1)))
\* A Tx.BeginTx that numbers the children of a parent one after the other.
BeginTxHeapCounting(heap, t, ctx, e) ==
    LET n == heap[t].index + 1 + Cardinality({c \in 1..Len(parent) : parent[c] = t})
    IN  IF e # NoErr
        THEN heap
        ELSE Append(heap, ChildTx(heap[t], ctx, n, SavepointName(n)))
\* The heap of Tx objects after Tx.BeginTx on txs[t] got e from the CREATE
\* statement.
BeginTxHeap(heap, t, ctx, e) ==
    IF e # NoErr
    THEN heap
    ELSE Append(heap, ChildTx(heap[t], ctx, heap[t].index + 1,
                              SavepointName(heap[t].index + 1)))

\* The number of calls recorded on the native transactions 1..n
RECURSIVE LogLen(_)
LogLen(n) == IF n = 0 THEN 0 ELSE Len(ntx[n]) + LogLen(n - 1)

\* _, err := tx.tx.ExecContext(ctx, text): recorded on the native transaction
Logged(n, call) == [ntx EXCEPT ![n] = Append(@, call)]

TxBeginTx(t, ctx, e) ==
    LET tx == txs[t]
        in == [NoInput EXCEPT !.ctx = ctx]
        index == tx.index + 1
        savepoint == SavepointName(index)
    IN  /\ UNCHANGED driver
        /\ IF NoSavepointer(tx)
           THEN /\ last' = Result("Tx.BeginTx", t, in, <<>>, 0, Nil, errNoNested, FALSE)
                /\ UNCHANGED <<txs, ntx, parent, closed>>
           ELSE IF tx.savepointer = Nil
           THEN \* tx.savepointer.Create on a nil interface (excluded by the guard)
                /\ last' = Result("Tx.BeginTx", t, in, <<>>, 0, Nil, NoErr, TRUE)
                /\ UNCHANGED <<txs, ntx, parent, closed>>
           ELSE LET call == Call(TxRes(tx.tx), "ExecContext", tx.ctx,
                                 Create(tx.savepointer, savepoint), <<>>, e)
                IN  /\ LogLen(Len(ntx)) < MaxLog
                    /\ e = NoErr => Len(txs) < MaxTx
                    /\ ntx' = Logged(tx.tx, call)
                    /\ txs' = BeginTxHeap(txs, t, ctx, e)
                    /\ parent' = IF e = NoErr THEN Append(parent, t) ELSE parent
                    /\ closed' = IF e = NoErr THEN Append(closed, FALSE) ELSE closed
                    /\ last' = Result("Tx.BeginTx", t, in, <<call>>,
                                      IF e = NoErr THEN Len(txs) + 1 ELSE 0,
                                      Nil, e, FALSE)

\* A depth-0 Commit or Rollback that sends a statement instead of calling
\* the native transaction.
NativeEndMut(op, fn, t, e) ==
    LET tx == txs[t]
        call == Call(TxRes(tx.tx), "ExecContext", tx.ctx, <<fn>>, <<>>, e)
    IN  /\ LogLen(Len(ntx)) < MaxLog
        /\ ntx' = Logged(tx.tx, call)
        /\ last' = Result(op, t, NoInput, <<call>>, 0, Nil, e, FALSE)
\* Commit and Rollback at depth 0: tx.tx.Commit(), tx.tx.Rollback()
NativeEnd(op, fn, t, e) ==
    LET tx == txs[t]
        call == Call(TxRes(tx.tx), fn, Nil, <<>>, <<>>, e)
    IN  /\ LogLen(Len(ntx)) < MaxLog
        /\ ntx' = Logged(tx.tx, call)
        /\ last' = Result(op, t, NoInput, <<call>>, 0, Nil, e, FALSE)

\* _, err := tx.tx.ExecContext(tx.ctx, q); return err
SavepointExec(op, t, q, e) ==
    LET tx == txs[t]
        call == Call(TxRes(tx.tx), "ExecContext", tx.ctx, q, <<>>, e)
    IN  /\ LogLen(Len(ntx)) < MaxLog
        /\ ntx' = Logged(tx.tx, call)
        /\ last' = Result(op, t, NoInput, <<call>>, 0, Nil, e, FALSE)

TxCommit(t, e) ==
    LET tx == txs[t]
    IN  /\ closed' = [closed EXCEPT ![t] = TRUE]
        /\ UNCHANGED <<driver, txs, parent>>
        /\ IF Len(tx.savepoint) = 0
           THEN NativeEnd("Tx.Commit", "Commit", t, e)
           ELSE IF tx.savepointer = Nil
           THEN \* tx.savepointer.Release on a nil interface
                /\ last' = Result("Tx.Commit", t, NoInput, <<>>, 0, Nil, NoErr, TRUE)
                /\ UNCHANGED ntx
           ELSE IF Release(tx.savepointer, tx.savepoint) = <<>>
           THEN /\ last' = Result("Tx.Commit", t, NoInput, <<>>, 0, Nil, NoErr, FALSE)
                /\ UNCHANGED ntx
           ELSE SavepointExec("Tx.Commit", t, Release(tx.savepointer, tx.savepoint), e)

TxRollback(t, e) ==
    LET tx == txs[t]
    IN  /\ closed' = [closed EXCEPT ![t] = TRUE]
        /\ UNCHANGED <<driver, txs, parent>>
        /\ IF Len(tx.savepoint) = 0
           THEN NativeEnd("Tx.Rollback", "Rollback", t, e)
           ELSE IF tx.savepointer = Nil
           THEN \* tx.savepointer.Rollback on a nil interface
                /\ last' = Result("Tx.Rollback", t, NoInput, <<>>, 0, Nil, NoErr, TRUE)
                /\ UNCHANGED ntx
           ELSE SavepointExec("Tx.Rollback", t, RollbackTo(tx.savepointer, tx.savepoint), e)

\* A method of Tx that forwards to the native transaction: tx.tx.fn(ctx, query, args)
Forward(op, fn, t, ctx, query, args, passed, e) ==
    LET tx == txs[t]
        in == [NoInput EXCEPT !.ctx = ctx, !.query = query, !.args = args]
        call == Call(TxRes(tx.tx), fn, ctx, query, passed, e)
    IN  /\ last' = Result(op, t, in, <<call>>, 0, Nil, e, FALSE)
        /\ UNCHANGED <<driver, txs, ntx, parent, closed>>

\* return tx.tx.ExecContext(ctx, query, args...)
TxExecContext(t, ctx, query, args, e) ==
    Forward("Tx.ExecContext", "ExecContext", t, ctx, query, args, args, e)

\* return tx.tx.PrepareContext(ctx, query)
TxPrepareContext(t, ctx, query, e) ==
    Forward("Tx.PrepareContext", "PrepareContext", t, ctx, query, <<>>, <<>>, e)

\* return tx.tx.QueryContext(ctx, query, args...)
TxQueryContext(t, ctx, query, args, e) ==
    Forward("Tx.QueryContext", "QueryContext", t, ctx, query, args, args, e)

\* return tx.tx.QueryRowContext(ctx, query, args): the slice args is passed
\* as the single variadic argument
TxQueryRowContext(t, ctx, query, args, e) ==
    Forward("Tx.QueryRowContext", "QueryRowContext", t, ctx, query, args, <<Slice(args)>>, e)

\* return tx.db.PingContext(ctx), and in it db.db.PingContext(ctx): db.db on
\* the nil *DB of a Tx made by Tx.BeginTx is a nil pointer dereference
TxPingContext(t, ctx, e) ==
    LET tx == txs[t]
        in == [NoInput EXCEPT !.ctx = ctx]
        call == Call(DBRes, "PingContext", ctx, <<>>, <<>>, e)
    IN  /\ UNCHANGED <<driver, txs, ntx, parent, closed>>
        /\ IF tx.db = Nil
           THEN last' = Result("Tx.PingContext", t, in, <<>>, 0, Nil, NoErr, TRUE)
           ELSE last' = Result("Tx.PingContext", t, in, <<call>>, 0, Nil, e, FALSE)

(***************************************************************************)
(* Package sqlexp: the lookups called on a handle h                        *)
(***************************************************************************)
Lookup(op, h, r) ==
    /\ last' = Result(op, 0, [NoInput EXCEPT !.handle = h], <<>>, 0, r.ret, NoErr, r.panic)
    /\ UNCHANGED <<driver, txs, ntx, parent, closed>>

CallNamerFromDriver(h) == Lookup("NamerFromDriver", h, NamerFromDriver(h))
CallFromDriver(h) == Lookup("FromDriver", h, FromDriver(h))
CallSavepointFromDriver(h) == Lookup("SavepointFromDriver", h, SavepointFromDriver(h))

(***************************************************************************)
(* Package sqlexp: sqlServerQuoter                                         *)
(***************************************************************************)
\* strings.Replace(s, old, new, -1) for a one-character old
RECURSIVE Replace(_, _, _)
Replace(s, old, new) ==
    IF s = <<>> THEN <<>>
    ELSE (IF Head(s) = old THEN new ELSE <<Head(s)>>) \o Replace(Tail(s), old, new)

\* An ID that doubles the opening bracket instead of the closing one.
IDMut(name) == <<"[">> \o Replace(name, "[", <<"[", "[">>) \o <<"]">>
\* "[" + strings.Replace(name, "]", "]]", -1) + "]"
ID(name) == <<"[">> \o Replace(name, "]", <<"]", "]">>) \o <<"]">>

\* A Value that does not double the quotes and renders any other value as
\* an empty literal.
ValueMut(v) ==
    IF v.kind = "string"
    THEN [text |-> <<"'">> \o v.s \o <<"'">>, panic |-> FALSE, msg |-> NoErr]
    ELSE [text |-> <<"'", "'">>, panic |-> FALSE, msg |-> NoErr]
\* switch v := v.(type): a string is quoted, anything else panics
Value(v) ==
    IF v.kind = "string"
    THEN [text |-> <<"'">> \o Replace(v.s, "'", <<"'", "'">>) \o <<"'">>,
          panic |-> FALSE, msg |-> NoErr]
    ELSE [text |-> <<>>, panic |-> TRUE, msg |-> "unsupported value"]

\* The record of a call of the quoter: the text returned, or the panic.
Quoted(op, in, text, msg, panic) ==
    [op |-> op, recv |-> 0, in |-> in, calls |-> <<>>, retTx |-> 0, retCap |-> Nil,
     err |-> msg, panic |-> panic, text |-> text]

CallID(name) ==
    /\ last' = Quoted("ID", [NoInput EXCEPT !.query = name], ID(name), NoErr, FALSE)
    /\ UNCHANGED <<driver, txs, ntx, parent, closed>>

CallValue(v) ==
    /\ last' = Quoted("Value", [NoInput EXCEPT !.value = v],
                      Value(v).text, Value(v).msg, Value(v).panic)
    /\ UNCHANGED <<driver, txs, ntx, parent, closed>>

(***************************************************************************)
(* Specifications.  Spec is the wrapper under callers that begin, commit   *)
(* and roll back; SpecForward is the wrapper under callers that begin      *)
(* transactions and run statements in them; SpecRegistry is package sqlexp *)
(* under callers of its lookups, SpecQuoter under callers of the quoter.   *)
(***************************************************************************)
Begins ==
    \/ \E ctx \in Ctxs, e \in Errs : DBBeginTx(ctx, e)
    \/ \E ctx \in Ctxs, e \in Errs : ConnBeginTx(ctx, e)
    \/ \E t \in 1..Len(txs), ctx \in Ctxs, e \in Errs : TxBeginTx(t, ctx, e)

Next ==
    \/ Begins
    \/ DBCommit
    \/ DBRollback
    \/ ConnCommit
    \/ ConnRollback
    \/ \E t \in 1..Len(txs), e \in Errs : TxCommit(t, e)
    \/ \E t \in 1..Len(txs), e \in Errs : TxRollback(t, e)

Spec == Init /\ [][Next]_vars

NextForward ==
    \/ Begins
    \/ \E t \in 1..Len(txs), ctx \in Ctxs, q \in Queries, a \in ArgLists, e \in Errs :
           TxExecContext(t, ctx, q, a, e)
    \/ \E t \in 1..Len(txs), ctx \in Ctxs, q \in Queries, e \in Errs :
           TxPrepareContext(t, ctx, q, e)
    \/ \E t \in 1..Len(txs), ctx \in Ctxs, q \in Queries, a \in ArgLists, e \in Errs :
           TxQueryContext(t, ctx, q, a, e)
    \/ \E t \in 1..Len(txs), ctx \in Ctxs, q \in Queries, a \in ArgLists, e \in Errs :
           TxQueryRowContext(t, ctx, q, a, e)
    \/ \E t \in 1..Len(txs), ctx \in Ctxs, e \in Errs : TxPingContext(t, ctx, e)

SpecForward == Init /\ [][NextForward]_vars

NextRegistry ==
    \/ \E h \in Handles : CallNamerFromDriver(h)
    \/ \E h \in Handles : CallFromDriver(h)
    \/ \E h \in Handles : CallSavepointFromDriver(h)

SpecRegistry == Init /\ [][NextRegistry]_vars

NextQuoter ==
    \/ \E name \in Strings : CallID(name)
    \/ \E v \in Values : CallValue(v)

SpecQuoter == Init /\ [][NextQuoter]_vars
(***************************************************************************)
(* Properties                                                              *)
(***************************************************************************)
\* The top-level Tx that t descends from, and t with all its ancestors.
RECURSIVE Root(_)
Root(t) == IF parent[t] = 0 THEN t ELSE Root(parent[t])

RECURSIVE Lineage(_)
Lineage(t) == IF parent[t] = 0 THEN {t} ELSE {t} \cup Lineage(parent[t])

\* The Savepointer detected for the lineage of t.
LineageSavepointer(t) == txs[Root(t)].savepointer

AllCallsSucceed == \A i \in 1..Len(last.calls) : last.calls[i].err = NoErr

HandleEnds == {"DB.Commit", "DB.Rollback", "Conn.Commit", "Conn.Rollback"}
TxEnds == {"Tx.Commit", "Tx.Rollback"}
ForwardOps == {"Tx.ExecContext", "Tx.PrepareContext", "Tx.QueryContext",
               "Tx.QueryRowContext", "Tx.PingContext"}
Lookups == {"NamerFromDriver", "FromDriver", "SavepointFromDriver"}

\* C1: on a driver that provides a Savepointer, a nested begin whose
\* savepoint statement executes successfully succeeds at every level of a
\* chain, and the savepoint names along the chain are pairwise distinct and
\* each contains its own depth number.
C1_NestedChainSucceeds ==
    (/\ last.op = "Tx.BeginTx"
     /\ savepointFromDriver(driver) # Nil
     /\ AllCallsSucceed)
    => /\ last.err = NoErr
       /\ ~last.panic
       /\ last.retTx # 0
       /\ LET chain == {a \in Lineage(last.retTx) : txs[a].index > 0}
          IN  /\ \A a, b \in chain : a # b => txs[a].savepoint # txs[b].savepoint
              /\ \A a \in chain : Contains(txs[a].savepoint, Itoa(txs[a].index))

\* C2: every Tx begun from a parent Tx has depth parent.depth + 1 and
\* references the parent's native transaction and the parent's Savepointer,
\* which is not nil.
C2_ChildSharesParent ==
    \A t \in 1..Len(txs) :
        parent[t] # 0 =>
            /\ txs[t].index = txs[parent[t]].index + 1
            /\ txs[t].tx = txs[parent[t]].tx
            /\ txs[t].savepointer = txs[parent[t]].savepointer
            /\ txs[t].savepointer # Nil

\* C3: Commit on a Tx at depth > 0 whose Savepointer's Release returns empty
\* text executes no statement, does not call the native commit and returns
\* no error.
C3_CommitEmptyRelease ==
    (/\ last.op = "Tx.Commit"
     /\ txs[last.recv].index > 0
     /\ Release(LineageSavepointer(last.recv), txs[last.recv].savepoint) = <<>>)
    => /\ last.calls = <<>>
       /\ last.err = NoErr
       /\ ~last.panic

\* C4: Rollback on a Tx at depth > 0 executes exactly one statement on the
\* shared native transaction, the rollback-to text for its own savepoint
\* name, does not call the native rollback, and returns the execution error.
C4_RollbackOneStatement ==
    (last.op = "Tx.Rollback" /\ txs[last.recv].index > 0)
    => /\ ~last.panic
       /\ Len(last.calls) = 1
       /\ last.calls[1].on = TxRes(txs[Root(last.recv)].tx)
       /\ last.calls[1].fn = "ExecContext"
       /\ last.calls[1].text =
              RollbackTo(LineageSavepointer(last.recv), txs[last.recv].savepoint)
       /\ last.err = last.calls[1].err

\* C5: Tx.BeginTx on a Tx whose lineage root detected no Savepointer fails
\* with errNoNested, returns no child and executes no statement; no Tx of
\* such a lineage is ever a child.
C5_UnsupportedNestedBegin ==
    /\ (last.op = "Tx.BeginTx" /\ LineageSavepointer(last.recv) = Nil)
       => /\ last.err = errNoNested
          /\ last.retTx = 0
          /\ last.calls = <<>>
          /\ ~last.panic
    /\ \A t \in 1..Len(txs) : LineageSavepointer(t) = Nil => parent[t] = 0

C5_Witness ==
    /\ last.op = "Tx.BeginTx"
    /\ LineageSavepointer(last.recv) = Nil
    /\ last.err = errNoNested

\* C6: Commit and Rollback on a DB or a Conn return errNoTx in every state,
\* make no call on the underlying handle and leave every Tx and every native
\* transaction as it was.
C6_NotInTransaction ==
    /\ [](last.op \in HandleEnds =>
            /\ last.err = errNoTx
            /\ last.calls = <<>>
            /\ ~last.panic)
    /\ [][last'.op \in HandleEnds => UNCHANGED <<txs, ntx, parent, closed>>]_vars

C6_Witness ==
    /\ last.op \in HandleEnds
    /\ last.err = errNoTx
    /\ \E t \in 1..Len(txs) : ~closed[t]

\* C7: every Tx has index 0 exactly if its savepoint name is empty; a Tx at
\* index 0 commits and rolls back by the native call alone, and a Tx at
\* index > 0 commits and rolls back by savepoint statements alone: Rollback
\* by the rollback-to text, Commit by the release text or, when that is
\* empty, by no statement.
C7_IndexAndSavepoint ==
    /\ \A t \in 1..Len(txs) : (txs[t].index = 0) <=> (txs[t].savepoint = <<>>)
    /\ last.op \in TxEnds =>
          LET tx == txs[last.recv]
              sp == LineageSavepointer(last.recv)
          IN  IF tx.index = 0
              THEN /\ Len(last.calls) = 1
                   /\ last.calls[1].fn = (IF last.op = "Tx.Commit" THEN "Commit" ELSE "Rollback")
              ELSE /\ ~last.panic
                   /\ \A i \in 1..Len(last.calls) : last.calls[i].fn = "ExecContext"
                   /\ IF last.op = "Tx.Rollback"
                      THEN /\ Len(last.calls) = 1
                           /\ last.calls[1].text = RollbackTo(sp, tx.savepoint)
                      ELSE IF Release(sp, tx.savepoint) = <<>>
                      THEN last.calls = <<>>
                      ELSE /\ Len(last.calls) = 1
                           /\ last.calls[1].text = Release(sp, tx.savepoint)

\* C8: when the CREATE statement of Tx.BeginTx fails, the driver's error is
\* returned unchanged and no child is returned; the heap of Tx objects is
\* unchanged, and a following successful Tx.BeginTx on the same parent
\* issues the same statement and returns the child that a first attempt
\* would have returned.
C8_FailedCreateLeavesNoState ==
    /\ [](/\ last.op = "Tx.BeginTx"
          /\ Len(last.calls) = 1
          /\ last.calls[1].err # NoErr
          => /\ last.err = last.calls[1].err
             /\ last.retTx = 0
             /\ ~last.panic)
    /\ [][(last'.op = "Tx.BeginTx" /\ last'.err = DriverErr)
          => UNCHANGED <<txs, parent, closed>>]_vars
    /\ [][(/\ last.op = "Tx.BeginTx"
           /\ last.err = DriverErr
           /\ last'.op = "Tx.BeginTx"
           /\ last'.recv = last.recv
           /\ last'.err = NoErr)
          => /\ last'.calls[1].text = last.calls[1].text
             /\ last'.calls[1].ctx = last.calls[1].ctx
             /\ last'.retTx # 0
             /\ txs'[last'.retTx].index = txs[last.recv].index + 1
             /\ txs'[last'.retTx].savepoint = SavepointName(txs[last.recv].index + 1)
             /\ txs'[last'.retTx].tx = txs[last.recv].tx]_vars

\* A failed Tx.BeginTx followed by a successful one on the same native
\* transaction.
C8_Witness ==
    /\ last.op = "Tx.BeginTx"
    /\ last.retTx # 0
    /\ \E n \in 1..Len(ntx) :
          /\ Len(ntx[n]) = 2
          /\ ntx[n][1].fn = "ExecContext" /\ ntx[n][1].err = DriverErr
          /\ ntx[n][2].fn = "ExecContext" /\ ntx[n][2].err = NoErr

\* C9: ExecContext, QueryContext, QueryRowContext, PrepareContext and
\* PingContext on a Tx at any depth make one call on the resource that the
\* same method of the depth-0 Tx of the lineage calls, and return its
\* outcome.
C9_ForwardAtEveryDepth ==
    last.op \in ForwardOps
    => /\ ~last.panic
       /\ Len(last.calls) = 1
       /\ last.calls[1].on = (IF last.op = "Tx.PingContext"
                              THEN DBRes
                              ELSE TxRes(txs[Root(last.recv)].tx))
       /\ last.calls[1].ctx = last.in.ctx
       /\ last.err = last.calls[1].err

\* C10: a lookup on a handle that implements none of the optional
\* interfaces and is not of a hard-coded driver type, the nil handle
\* included, returns nil without a panic or an error.
C10_LookupAbsent ==
    (/\ last.op \in Lookups
     /\ \/ last.in.handle.isNil
        \/ /\ ~last.in.handle.namer
           /\ ~last.in.handle.quoter
           /\ last.in.handle.sp = Nil
           /\ last.in.handle.type # "*mssql.MssqlDriver")
    => /\ last.retCap = Nil
       /\ ~last.panic
       /\ last.err = NoErr
\* The number of single quotes of v before position i, and the position in
\* the quoted text of the character v[i].
QuotesBefore(v, i) == Cardinality({j \in 1..(i - 1) : v[j] = "'"})
QuotedPos(v, i) == 1 + i + QuotesBefore(v, i)

\* C11: for every string v, Value(v) is one single quote, the characters of
\* v in order with each single quote followed by a second one, and one
\* single quote; Value("It's") is 'It''s'.
C11_ValueQuotesString ==
    (last.op = "Value" /\ last.in.value.kind = "string")
    => LET v == last.in.value.s
           out == last.text
       IN  /\ ~last.panic
           /\ Len(out) = Len(v) + 2 + QuotesBefore(v, Len(v) + 1)
           /\ out[1] = "'"
           /\ out[Len(out)] = "'"
           /\ \A i \in 1..Len(v) :
                 /\ out[QuotedPos(v, i)] = v[i]
                 /\ v[i] = "'" => out[QuotedPos(v, i) + 1] = "'"
           /\ v = ItsExample => out = <<"'", "I", "t", "'", "'", "s", "'">>

C11_Witness ==
    /\ last.op = "Value"
    /\ last.in.value = [kind |-> "string", s |-> ItsExample]
    /\ last.text = <<"'", "I", "t", "'", "'", "s", "'">>

\* Reading a bracketed identifier: after the opening bracket a doubled
\* closing bracket stands for one closing bracket, and a single closing
\* bracket ends the identifier and must be the last character.
RECURSIVE ReadID(_, _)
ReadID(t, i) ==
    IF i > Len(t) THEN [ok |-> FALSE, s |-> <<>>]
    ELSE IF t[i] = "]"
    THEN IF i < Len(t) /\ t[i + 1] = "]"
         THEN LET r == ReadID(t, i + 2) IN [ok |-> r.ok, s |-> <<"]">> \o r.s]
         ELSE [ok |-> i = Len(t), s |-> <<>>]
    ELSE LET r == ReadID(t, i + 1) IN [ok |-> r.ok, s |-> <<t[i]>> \o r.s]

ParseID(t) ==
    IF Len(t) < 2 \/ t[1] # "[" THEN [ok |-> FALSE, s |-> <<>>] ELSE ReadID(t, 2)

\* C12: for every identifier s, reading ID(s) back recovers s, and the only
\* unescaped closing bracket of ID(s) is its final character.
C12_IDRoundTrip ==
    last.op = "ID" => ParseID(last.text) = [ok |-> TRUE, s |-> last.in.query]

C12_Witness ==
    /\ last.op = "ID"
    /\ \E i \in 1..Len(last.in.query) : last.in.query[i] = "]"
    /\ ParseID(last.text).ok

\* C13: Value on a value that is not a string fails: it panics with
\* "unsupported value" and returns no text.
C13_UnsupportedValue ==
    (last.op = "Value" /\ last.in.value.kind # "string")
    => /\ last.panic
       /\ last.err = "unsupported value"
       /\ last.text = <<>>

C13_Witness ==
    /\ last.op = "Value"
    /\ last.in.value.kind = "[]byte"
    /\ last.panic
\* C14: Commit on a Tx at depth > 0 whose Savepointer's Release returns
\* non-empty text executes exactly one statement on the shared native
\* transaction, the release text for its own savepoint name, returns that
\* execution's error and does not call the native commit.
C14_CommitReleasesSavepoint ==
    (/\ last.op = "Tx.Commit"
     /\ txs[last.recv].index > 0
     /\ Release(LineageSavepointer(last.recv), txs[last.recv].savepoint) # <<>>)
    => /\ ~last.panic
       /\ Len(last.calls) = 1
       /\ last.calls[1].on = TxRes(txs[Root(last.recv)].tx)
       /\ last.calls[1].fn = "ExecContext"
       /\ last.calls[1].text =
              Release(LineageSavepointer(last.recv), txs[last.recv].savepoint)
       /\ last.err = last.calls[1].err

\* C15 as stated: a child begun from a parent after an earlier child of that
\* parent was committed or rolled back has a depth and a savepoint name
\* that differ from the earlier child's.
C15_SiblingDepthNotReused ==
    [][(last'.op = "Tx.BeginTx" /\ last'.retTx # 0)
       => \A c \in 1..Len(txs) :
             (parent[c] = last'.recv /\ closed[c])
             => /\ txs'[last'.retTx].index # txs[c].index
                /\ txs'[last'.retTx].savepoint # txs[c].savepoint]_vars

\* C15 as amended: the depth and the savepoint name of a child are those of
\* its parent's depth plus one, so all children of one parent share them.
C15_SiblingsShareDepth ==
    \A c \in 1..Len(txs) :
        parent[c] # 0 =>
            /\ txs[c].index = txs[parent[c]].index + 1
            /\ txs[c].savepoint = SavepointName(txs[parent[c]].index + 1)
            /\ \A d \in 1..Len(txs) :
                  parent[d] = parent[c] =>
                      /\ txs[d].index = txs[c].index
                      /\ txs[d].savepoint = txs[c].savepoint

\* A second child begun after Commit or Rollback was called on the first.
C15_Witness ==
    /\ last.op = "Tx.BeginTx"
    /\ last.retTx # 0
    /\ \E c \in 1..Len(txs) :
          /\ c # last.retTx
          /\ parent[c] = last.recv
          /\ closed[c]

\* C16: the CREATE statement of Tx.BeginTx(ctx, opts) is executed under the
\* ctx of that call.
C16_CreateUnderCallerCtx ==
    (last.op = "Tx.BeginTx" /\ Len(last.calls) = 1)
    => last.calls[1].ctx = last.in.ctx

\* C17: Tx.QueryRowContext passes to the native transaction the query and
\* the argument list that it was given, as Tx.QueryContext does.
C17_QueryRowForwardsArgs ==
    last.op = "Tx.QueryRowContext"
    => /\ Len(last.calls) = 1
       /\ last.calls[1].text = last.in.query
       /\ last.calls[1].args = last.in.args
\* The calls recorded on a native transaction, read as savepoint statements.
IsNativeEnd(c) == c.fn \in {"Commit", "Rollback"}
IsStatement(c, keyword) == c.fn = "ExecContext" /\ c.text # <<>> /\ Head(c.text) = keyword
IsCreate(c) == IsStatement(c, "SAVEPOINT ")
IsRelease(c) == IsStatement(c, "RELEASE SAVEPOINT ")
IsRollbackTo(c) == IsStatement(c, "ROLLBACK TO SAVEPOINT ")

\* The last position of name in the sequence est of established savepoints,
\* 0 if there is none.
LastOf(est, name) ==
    LET at == {i \in 1..Len(est) : est[i] = name}
    IN  IF at = {} THEN 0 ELSE CHOOSE i \in at : \A j \in at : j <= i

\* The savepoints established after a statement c that succeeded: CREATE
\* adds its name, RELEASE removes the named savepoint and the later ones,
\* ROLLBACK TO removes the later ones.
Established(est, c) ==
    IF c.err # NoErr THEN est
    ELSE IF IsCreate(c) THEN Append(est, Tail(c.text))
    ELSE IF IsRelease(c) THEN SubSeq(est, 1, LastOf(est, Tail(c.text)) - 1)
    ELSE IF IsRollbackTo(c) THEN SubSeq(est, 1, LastOf(est, Tail(c.text)))
    ELSE est

\* log is well bracketed from a native transaction with the savepoints est,
\* ended or not: no statement after the native commit or rollback, and
\* every RELEASE and ROLLBACK TO names an established savepoint.
RECURSIVE Bracketed(_, _, _)
Bracketed(log, est, ended) ==
    IF log = <<>> THEN TRUE
    ELSE LET c == Head(log)
         IN  IF IsNativeEnd(c) THEN Bracketed(Tail(log), <<>>, TRUE)
             ELSE /\ ~ended
                  /\ (IsRelease(c) \/ IsRollbackTo(c)) => LastOf(est, Tail(c.text)) # 0
                  /\ Bracketed(Tail(log), Established(est, c), ended)

AllBracketed == \A n \in 1..Len(ntx) : Bracketed(ntx[n], <<>>, FALSE)

\* The usage contract for a call on t: t and its ancestors have not been
\* ended, and every Tx begun inside t has been.
Conforms(t) ==
    /\ \A a \in Lineage(t) : ~closed[a]
    /\ \A d \in 1..Len(txs) : (d # t /\ t \in Lineage(d)) => closed[d]

TxControlOps == {"Tx.BeginTx", "Tx.Commit", "Tx.Rollback"}

C19_OtherTxUnchanged ==
    [][last'.op \in TxControlOps
       => \A t \in 1..Len(txs) : txs'[t] = txs[t]]_vars

\* A call on a nested Tx, whose parent exists.
C19_Witness ==
    /\ last.op \in TxControlOps
    /\ txs[last.recv].index > 0
    /\ parent[last.recv] # 0

\* C20: Commit and Rollback on a depth-0 Tx make exactly one call, the
\* native commit or rollback, and send no statement, with or without a
\* Savepointer; BeginTx on a DB or Conn whose native begin fails returns
\* that error and no Tx.
C20_TopLevelIsNative ==
    /\ (last.op \in TxEnds /\ txs[last.recv].index = 0)
       => /\ ~last.panic
          /\ Len(last.calls) = 1
          /\ last.calls[1].on = TxRes(txs[last.recv].tx)
          /\ last.calls[1].fn = (IF last.op = "Tx.Commit" THEN "Commit" ELSE "Rollback")
          /\ last.calls[1].text = <<>>
          /\ last.err = last.calls[1].err
    /\ (last.op \in {"DB.BeginTx", "Conn.BeginTx"} /\ ~AllCallsSucceed)
       => /\ Len(last.calls) = 1
          /\ last.calls[1].fn = "BeginTx"
          /\ last.err = last.calls[1].err
          /\ last.retTx = 0
          /\ ~last.panic

C20_Witness ==
    /\ last.op = "Tx.Rollback"
    /\ txs[last.recv].index = 0
    /\ txs[last.recv].savepointer # Nil
    /\ Len(last.calls) = 1
====
